---- MODULE Spec2Model ----
(***************************************************************************)
(* The webhook handler of src/src/index.ts (a Cloudflare Worker relaying   *)
(* Telegram messages to the OpenAI responses endpoint) as a state machine. *)
(* Every invocation of fetch() runs in a slot; the steps of an invocation  *)
(* are its awaits on the key-value store, on the completion endpoint and   *)
(* on the Telegram sendMessage endpoint, so invocations interleave exactly *)
(* at those awaits.  Each outbound call returns, reports a non-success     *)
(* status, or throws.                                                      *)
(***************************************************************************)
EXTENDS Integers, Sequences, FiniteSets

\* ---------------------------------------------------------------- constants

\* const DAILY_QUOTA = 20
DAILY_QUOTA == 20

\* const MAX = 4000 (chunk size of sendTelegramText)
MAX == 4000

\* ------------------------------------------------------------------- bounds

\* Invocations that may be in flight at the same time.
MaxInFlight == 2

\* Webhook deliveries of one run.
MaxRequests == 2

\* Messages of the day already handled, one at a time, before the run starts:
\* the run starts from DAILY_QUOTA - MaxPriorGap .. DAILY_QUOTA (and from 0).
MaxPriorGap == 1

\* Webhook deliveries of one run of the race specification.
MaxRaceRequests == 5

\* Webhook deliveries of one run of the tone specification.
MaxToneRequests == 3

\* Webhook deliveries of one run of the day-rollover specification.
MaxDayRequests == 2

\* Webhook deliveries of one run of the chunking specification.
MaxSendRequests == 2

\* Webhook deliveries of one run of the two-chat specification, and the
\* messages the second chat had answered before the run.
MaxIsoRequests == 3

IsoPrior == 3

Slots == 1..MaxInFlight

\* The chats the store holds entries of, and those whose updates a run delivers.
Chats == {42, 7}

ActiveChats == {42}

\* UTC days, numbered; day d is the milliseconds (d - 1) * DayMs .. d * DayMs - 1.
Days == {1, 2}

\* Milliseconds of a UTC day (Date.UTC of the next day minus that of the day).
DayMs == 86400000

Tones == {"friendly", "formal", "technical"}

\* ----------------------------------------------------------- pure functions

RECURSIVE ToString(_)
\* Number.prototype.toString() of a non-negative integer, as a digit sequence.
ToString(n) ==
    IF n < 10 THEN <<n>> ELSE Append(ToString(n \div 10), n % 10)

\* parseInt's NaN.
NaN == -1

RECURSIVE ParseDigits(_, _)
ParseDigits(s, acc) ==
    IF s = <<>> \/ Head(s) \notin 0..9 THEN acc
    ELSE ParseDigits(Tail(s), acc * 10 + Head(s))

\* Mutant: only the first digit is read.
ParseIntFirstDigit(s) ==
    IF s = <<>> \/ Head(s) \notin 0..9 THEN NaN ELSE Head(s)

\* parseInt(raw, 10): the leading digits of raw, NaN when there are none.
ParseInt(s) ==
    IF s = <<>> \/ Head(s) \notin 0..9 THEN NaN ELSE ParseDigits(s, 0)

\* existingCountRaw ? parseInt(existingCountRaw, 10) : 0, NaN read as 0.
\* A missing key (null) and the empty string are both falsy: <<>>.
ExistingCount(raw) ==
    LET parsedExistingCount == IF raw # <<>> THEN ParseInt(raw) ELSE 0
    IN  IF parsedExistingCount = NaN THEN 0 ELSE parsedExistingCount

\* now.toISOString().slice(0, 10): the UTC day of an instant.
CurrentDay(at) == (at \div DayMs) + 1

\* Mutant: the quota key leaves the day out.
QuotaKeyNoDay(chat, day) == <<chat, 1>>

\* Mutant: the quota key leaves the chat out, so all chats share one entry a day.
QuotaKeyNoChat(chat, day) == <<CHOOSE c \in Chats : TRUE, day>>

\* `quota:${chatId}:${currentDay}`
QuotaKey(chat, day) == <<chat, day>>

\* getSettingsKey: `settings:${chatId}`
GetSettingsKey(chat) == chat

\* Math.ceil(ms / 1000) of a non-negative number of milliseconds.
CeilSeconds(ms) == (ms + 999) \div 1000

\* ttlSecondsUntilTomorrow: whole seconds, rounded up and at least 1, from
\* `now` to the next UTC midnight.
TtlSecondsUntilTomorrow(at) ==
    LET tomorrowUtcMidnight == CurrentDay(at) * DayMs
        diffMs == tomorrowUtcMidnight - at
    IN  IF CeilSeconds(diffMs) > 1 THEN CeilSeconds(diffMs) ELSE 1

\* Mutant: the chunk is not cut at the end of the text.
SliceUnclamped(len, i) == [from |-> i, to |-> i + MAX]

\* text.slice(i, i + MAX) of a text of `len` units, as the positions it holds.
Slice(len, i) == [from |-> i, to |-> IF i + MAX < len THEN i + MAX ELSE len]

\* Mutant: the settings are stored under a key the reader does not look for.
StringifyOtherKey(tone) == <<"Tone", tone>>

\* JSON.stringify(settings) of { tone }.
Stringify(tone) == <<"tone", tone>>

\* String.prototype.toLowerCase on the tokens the model uses.
ToLowerCase(w) ==
    CASE w = "FORMAL" -> "formal"
      [] w = "Technical" -> "technical"
      [] OTHER -> w

\* loadUserSettings after the read: DEFAULT_SETTINGS unless the stored JSON
\* holds a tone that, lower-cased, is one of the three.
ParseSettings(raw) ==
    IF raw = <<>> THEN "friendly"
    ELSE IF Len(raw) = 2 /\ raw[1] = "tone" /\ ToLowerCase(raw[2]) \in Tones
         THEN ToLowerCase(raw[2])
         ELSE "friendly"

\* A message text is a sequence of tokens; " " is white space, every other
\* token is a run of non-space characters, and adjacent non-space tokens
\* are one word.
IsSpace(w) == w = " "

RECURSIVE TrimStart(_)
TrimStart(t) ==
    IF t # <<>> /\ IsSpace(Head(t)) THEN TrimStart(Tail(t)) ELSE t

RECURSIVE TrimEnd(_)
TrimEnd(t) ==
    IF t # <<>> /\ IsSpace(t[Len(t)]) THEN TrimEnd(SubSeq(t, 1, Len(t) - 1)) ELSE t

\* String.prototype.trim
Trim(t) == TrimEnd(TrimStart(t))

\* String.prototype.startsWith for a prefix of whole tokens.
StartsWith(t, p) == Len(t) >= Len(p) /\ SubSeq(t, 1, Len(p)) = p

RECURSIVE SplitWords(_, _, _)
\* split(/\s+/): the words between runs of white space; a word is the
\* sequence of its tokens.
SplitWords(t, cur, acc) ==
    IF t = <<>> THEN Append(acc, cur)
    ELSE IF IsSpace(Head(t))
         THEN IF Len(t) > 1 /\ IsSpace(t[2])
              THEN SplitWords(Tail(t), cur, acc)
              ELSE SplitWords(Tail(t), <<>>, Append(acc, cur))
         ELSE SplitWords(Tail(t), Append(cur, Head(t)), acc)

Split(t) == SplitWords(t, <<>>, <<>>)

\* (parts[1] || "").toLowerCase() of /settings_tone: "" when there is no second
\* word; a word of several tokens is no tone name.
NewTone(trimmedText) ==
    LET parts == Split(trimmedText)
    IN  IF Len(parts) < 2 \/ parts[2] = <<>> THEN ""
        ELSE IF Len(parts[2]) = 1 THEN ToLowerCase(parts[2][1])
        ELSE "other"

\* Mutant: /quota is matched exactly only, so "/quota x" is an ordinary message.
CommandExactQuota(trimmedText) ==
    CASE trimmedText = <<"/start">> -> "start"
      [] trimmedText = <<"/help">> -> "help"
      [] trimmedText = <<"/quota">> -> "quota"
      [] trimmedText = <<"/settings">> -> "settings"
      [] StartsWith(trimmedText, <<"/settings_tone">>) ->
            IF NewTone(trimmedText) \in Tones THEN "tone" ELSE "hint"
      [] OTHER -> "message"

\* The branch of the command routing a trimmed text takes, in the order of
\* the code's tests; "message" is the fall-through to the completion pipeline.
Command(trimmedText) ==
    CASE trimmedText = <<"/start">> -> "start"
      [] trimmedText = <<"/help">> -> "help"
      [] trimmedText = <<"/quota">> \/ StartsWith(trimmedText, <<"/quota", " ">>) -> "quota"
      [] trimmedText = <<"/settings">> -> "settings"
      [] StartsWith(trimmedText, <<"/settings_tone">>) ->
            IF NewTone(trimmedText) \in Tones THEN "tone" ELSE "hint"
      [] OTHER -> "message"

\* Mutant: only the bare command is a debug request.
IsDebugExact(trimmedText) == trimmedText = <<"/debug">>

\* const isDebug = trimmedText.startsWith("/debug")
IsDebug(trimmedText) == StartsWith(trimmedText, <<"/debug">>)

\* The length (UTF-16 units) of each canned message.
TextLength(msg, count, tone) ==
    CASE msg = "start" -> 123
      [] msg = "help" -> 240
      [] msg = "quota" ->
            157 + Len(ToString(count))
                + Len(ToString(IF DAILY_QUOTA > count THEN DAILY_QUOTA - count ELSE 0))
      [] msg = "settings" ->
            (CASE tone = "formal" -> 79 [] tone = "technical" -> 78 [] OTHER -> 80)
                + Len(ToString(count))
                + Len(ToString(IF DAILY_QUOTA > count THEN DAILY_QUOTA - count ELSE 0))
      [] msg = "hint" -> 124
      [] msg = "tone" ->
            (CASE tone = "formal" -> 58 [] tone = "technical" -> 71 [] OTHER -> 55)
      [] msg = "exceeded" -> 100 + Len(ToString(count))
      [] msg = "error" -> 51
      [] OTHER -> 0

\* ----------------------------------------------------------------- inputs

\* The message texts a run draws from.
Texts ==
    { <<" ", "/start", " ">>, <<"/help">>, <<"/quota", " ", "x">>, <<"/settings">>,
      <<"/settings_tone", " ", "casual">>, <<"/settings_tone", " ", " ", "FORMAL">>,
      <<"/debug", " ", "hi">>, <<"hi">> }

\* Lengths of the answer the completion endpoint returns (never empty:
\* an empty answer is replaced by a canned one).
AnswerLens == {50, 4050}

\* ------------------------------------------------------------------ state

VARIABLES
    env,          \* the bindings: WEBHOOK_SECRET and OPENAI_API_KEY set or not
    today,        \* the current UTC day
    nowMs,        \* the milliseconds elapsed of the current UTC day
    kvQuota,      \* BOT_KV under quota:<chat>:<day>, <<>> when absent
    kvExpiry,     \* the instant the entry under quota:<chat>:<day> expires
    kvSettings,   \* BOT_KV under settings:<chat>, <<>> when absent
    req,          \* the invocations, one per slot
    received,     \* webhook deliveries so far
    completions,  \* history: completion calls made per chat and day
    exhausted     \* history: a completion call has reported 429

vars ==
    <<env, today, nowMs, kvQuota, kvExpiry, kvSettings, req, received, completions,
      exhausted>>

\* new Date(): the current instant, in milliseconds since day 1 began.
Now == (today - 1) * DayMs + nowMs

\* BOT_KV.get of a quota key: null once the entry has expired.
GetQuota(key) == IF Now >= kvExpiry[key] THEN <<>> ELSE kvQuota[key]

\* A slot no invocation has used yet.
Idle ==
    [ pc |-> "idle", chat |-> 0, day |-> 0, text |-> <<>>, existingCount |-> 0,
      tone |-> "", msg |-> "", len |-> 0, i |-> 0, after |-> 0, inCatch |-> FALSE,
      status |-> 0, calls |-> 0, writes |-> 0, attempts |-> 0, sent |-> {},
      raised |-> "", afterExhaustion |-> FALSE, parsed |-> FALSE, token |-> "",
      at |-> 0, reads |-> {}, wrote |-> {}, wroteCount |-> <<>>, log |-> <<>> ]

\* The stored count after n messages handled one at a time.
StoredCount(n) == IF n = 0 THEN <<>> ELSE ToString(n)

PriorCounts == {0} \cup { n \in 0..DAILY_QUOTA : n >= DAILY_QUOTA - MaxPriorGap }

\* The store and the history after `prior` messages of the active chats were
\* handled one at a time earlier on day 1: the count, expiring at the midnight
\* that ends day 1, and as many completion calls.
Handled(prior) ==
    /\ kvQuota = [k \in Chats \X Days |->
                    IF k[1] \in ActiveChats /\ k[2] = 1 THEN StoredCount(prior) ELSE <<>>]
    /\ kvExpiry = [k \in Chats \X Days |->
                    IF k[1] \in ActiveChats /\ k[2] = 1 /\ prior > 0 THEN DayMs ELSE 0]
    /\ completions = [k \in Chats \X Days |->
                    IF k[1] \in ActiveChats /\ k[2] = 1 THEN prior ELSE 0]

\* Noon of day 1.
Noon == DayMs \div 2

Init ==
    /\ env \in [secret : BOOLEAN, apiKey : BOOLEAN]
    /\ today = 1
    /\ nowMs = Noon
    /\ \E prior \in PriorCounts : Handled(prior)
    /\ \E raw \in {<<>>, Stringify("technical")} :
         kvSettings = [c \in Chats |-> IF c \in ActiveChats THEN raw ELSE <<>>]
    /\ req = [s \in Slots |-> Idle]
    /\ received = 0
    /\ exhausted = FALSE

\* ---------------------------------------------------------------- helpers

Set(s, r) == req' = [req EXCEPT ![s] = r]

\* return new Response(..., { status }): the invocation is over.
Reply(r, status) ==
    [r EXCEPT !.pc = "done", !.status = status, !.len = 0, !.i = 0, !.after = 0,
              !.inCatch = FALSE]

\* The handler's promise rejects: no Response reaches the transport.
Rejected == -1

\* await sendTelegramText(chatId, text), then return a Response of `after`:
\* the loop body runs once per chunk, so an empty text is never sent.
SendThen(r, msg, len, after) ==
    IF len = 0 THEN Reply([r EXCEPT !.msg = msg, !.attempts = 0], after)
    ELSE [r EXCEPT !.pc = "send", !.msg = msg, !.len = len, !.i = 0,
                   !.after = after, !.attempts = 0]

\* Mutant: the catch block replies success.
CatchReplyOk(r, what) ==
    SendThen([r EXCEPT !.inCatch = TRUE, !.raised = what],
             "error", TextLength("error", 0, ""), 200)

\* catch (error): tell the chat, then 502.
Catch(r, what) ==
    SendThen([r EXCEPT !.inCatch = TRUE, !.raised = what],
             "error", TextLength("error", 0, ""), 502)

\* An error raised at an await: inside the try block it is caught; raised by
\* the catch block's own sendTelegramText it leaves the handler.
Raise(r, what) ==
    IF r.inCatch
    THEN Reply(r, Rejected)
    ELSE Catch(r, what)

\* Mutant: the quota test is existingCount > DAILY_QUOTA.
RouteStrictCap(r) ==
    LET trimmedText == Trim(r.text)
        cmd == Command(trimmedText)
    IN  CASE cmd \in {"start", "help", "hint"} ->
               SendThen(r, cmd, TextLength(cmd, 0, ""), 200)
          [] cmd \in {"quota", "settings"} ->
               SendThen(r, cmd, TextLength(cmd, r.existingCount, r.tone), 200)
          [] cmd = "tone" -> [r EXCEPT !.pc = "saveTone"]
          [] r.existingCount > DAILY_QUOTA ->
               SendThen(r, "exceeded", TextLength("exceeded", r.existingCount, ""), 200)
          [] OTHER -> [r EXCEPT !.pc = "putQuota"]

\* Mutant: the quota test is existingCount + 1 >= DAILY_QUOTA.
RouteOffByOne(r) ==
    LET trimmedText == Trim(r.text)
        cmd == Command(trimmedText)
    IN  CASE cmd \in {"start", "help", "hint"} ->
               SendThen(r, cmd, TextLength(cmd, 0, ""), 200)
          [] cmd \in {"quota", "settings"} ->
               SendThen(r, cmd, TextLength(cmd, r.existingCount, r.tone), 200)
          [] cmd = "tone" -> [r EXCEPT !.pc = "saveTone"]
          [] r.existingCount + 1 >= DAILY_QUOTA ->
               SendThen(r, "exceeded", TextLength("exceeded", r.existingCount, ""), 200)
          [] OTHER -> [r EXCEPT !.pc = "putQuota"]

\* The synchronous part of the handler after loadUserSettings returned, up to
\* the next await: the command routing and the quota test.
Route(r) ==
    LET trimmedText == Trim(r.text)
        cmd == Command(trimmedText)
    IN  CASE cmd \in {"start", "help", "hint"} ->
               SendThen(r, cmd, TextLength(cmd, 0, ""), 200)
          [] cmd \in {"quota", "settings"} ->
               SendThen(r, cmd, TextLength(cmd, r.existingCount, r.tone), 200)
          [] cmd = "tone" -> [r EXCEPT !.pc = "saveTone"]
          [] r.existingCount >= DAILY_QUOTA ->
               SendThen(r, "exceeded", TextLength("exceeded", r.existingCount, ""), 200)
          [] OTHER -> [r EXCEPT !.pc = "putQuota"]

\* ---------------------------------------------------------------- actions

\* The requests a run draws from: the health check, another route, and
\* webhook POSTs with a wrong secret header, an unparseable body, an update
\* without chat id, an update whose text is no string, and text messages.
Requests ==
    { [route |-> "health", token |-> "right", bodyOk |-> TRUE, chat |-> 0,
       isString |-> FALSE, text |-> <<>>],
      [route |-> "other", token |-> "right", bodyOk |-> TRUE, chat |-> 0,
       isString |-> FALSE, text |-> <<>>],
      [route |-> "webhook", token |-> "wrong", bodyOk |-> TRUE, chat |-> 42,
       isString |-> TRUE, text |-> <<"hi">>],
      [route |-> "webhook", token |-> "absent", bodyOk |-> TRUE, chat |-> 42,
       isString |-> TRUE, text |-> <<"hi">>],
      [route |-> "webhook", token |-> "right", bodyOk |-> FALSE, chat |-> 0,
       isString |-> FALSE, text |-> <<>>],
      [route |-> "webhook", token |-> "right", bodyOk |-> TRUE, chat |-> 0,
       isString |-> TRUE, text |-> <<"hi">>],
      [route |-> "webhook", token |-> "right", bodyOk |-> TRUE, chat |-> 42,
       isString |-> FALSE, text |-> <<>>] }
    \cup
    { [route |-> "webhook", token |-> "right", bodyOk |-> TRUE, chat |-> c,
       isString |-> TRUE, text |-> t] : c \in ActiveChats, t \in Texts }

\* Accept with a secret check that lets a request without the header through.
AcceptHeaderOptional(q) ==
    LET token == IF env.secret THEN q.token ELSE ""
        in == [Idle EXCEPT !.token = token]
    IN  CASE q.route = "health" -> Reply(Idle, 200)
          [] q.route = "other" -> Reply(Idle, 404)
          [] env.secret /\ token \notin {"right", "absent"} -> Reply(in, 401)
          [] ~q.bodyOk -> Reply(in, 400)
          [] q.chat = 0 \/ ~q.isString -> Reply([in EXCEPT !.parsed = TRUE], 200)
          [] ~env.apiKey ->
               Reply([in EXCEPT !.parsed = TRUE, !.chat = q.chat, !.text = q.text], 500)
          [] OTHER ->
               [in EXCEPT !.pc = "readQuota", !.parsed = TRUE, !.chat = q.chat,
                          !.at = Now, !.day = CurrentDay(Now), !.text = q.text,
                          !.afterExhaustion = exhausted]

\* fetch(req, env) up to its first await on the store: the routes, the secret
\* check, the body parse, the extraction of chat id and text, the API key.
Accept(q) ==
    LET \* req.headers.get("x-telegram-bot-api-secret-token"), read only when
        \* WEBHOOK_SECRET is set
        token == IF env.secret THEN q.token ELSE ""
        in == [Idle EXCEPT !.token = token]
    IN  CASE q.route = "health" -> Reply(Idle, 200)
          [] q.route = "other" -> Reply(Idle, 404)
          [] env.secret /\ token # "right" -> Reply(in, 401)
          [] ~q.bodyOk -> Reply(in, 400)
          [] q.chat = 0 \/ ~q.isString -> Reply([in EXCEPT !.parsed = TRUE], 200)
          [] ~env.apiKey ->
               Reply([in EXCEPT !.parsed = TRUE, !.chat = q.chat, !.text = q.text], 500)
          [] OTHER ->
               [in EXCEPT !.pc = "readQuota", !.parsed = TRUE, !.chat = q.chat,
                          !.at = Now, !.day = CurrentDay(Now), !.text = q.text,
                          !.afterExhaustion = exhausted]

\* The slot an arriving request runs in: the first one that is free.
Free(s) == req[s].pc \in {"idle", "done"}

\* One webhook delivery, out of `requests`, starts in slot s.
Deliver(s, requests, max) ==
    /\ Free(s)
    /\ \A t \in Slots : t < s => ~Free(t)
    /\ received < max
    /\ received' = received + 1
    /\ \E q \in requests : Set(s, Accept(q))
    /\ UNCHANGED <<env, today, nowMs, kvQuota, kvExpiry, kvSettings, completions, exhausted>>

Receive(s) == Deliver(s, Requests, MaxRequests)

\* await env.BOT_KV.get(quotaKey)
ReadQuota(s) ==
    LET r == req[s]
        quotaKey == QuotaKey(r.chat, r.day)
        got == [r EXCEPT !.reads = @ \cup {<<"quota", quotaKey[1], quotaKey[2]>>}]
    IN  /\ r.pc = "readQuota"
        /\ \E ok \in BOOLEAN :
             Set(s, IF ok
                    THEN [got EXCEPT !.pc = "loadSettings",
                                     !.existingCount = ExistingCount(GetQuota(quotaKey))]
                    ELSE Raise(got, "quotaRead"))
        /\ UNCHANGED <<env, today, nowMs, kvQuota, kvExpiry, kvSettings, received, completions, exhausted>>

\* await loadUserSettings(chatId), then the routing up to the next await.
LoadSettings(s) ==
    LET r == req[s]
        key == GetSettingsKey(r.chat)
        got == [r EXCEPT !.reads = @ \cup {<<"settings", key, 0>>}]
    IN  /\ r.pc = "loadSettings"
        /\ \E ok \in BOOLEAN :
             Set(s, IF ok
                    THEN Route([got EXCEPT !.tone = ParseSettings(kvSettings[key])])
                    ELSE Raise(got, "settingsLoad"))
        /\ UNCHANGED <<env, today, nowMs, kvQuota, kvExpiry, kvSettings, received, completions, exhausted>>

\* await saveUserSettings(chatId, { tone: newTone }), then the confirmation.
SaveTone(s) ==
    LET r == req[s]
        newTone == NewTone(Trim(r.text))
        key == GetSettingsKey(r.chat)
        put == [r EXCEPT !.wrote = @ \cup {<<"settings", key, 0>>}]
    IN  /\ r.pc = "saveTone"
        /\ \E ok \in BOOLEAN :
             IF ok
             THEN /\ kvSettings' = [kvSettings EXCEPT ![key] = Stringify(newTone)]
                  /\ Set(s, SendThen(put, "tone", TextLength("tone", 0, newTone), 200))
             ELSE /\ Set(s, Raise(put, "settingsSave"))
                  /\ UNCHANGED kvSettings
        /\ UNCHANGED <<env, today, nowMs, kvQuota, kvExpiry, received, completions, exhausted>>

\* The value the admitted invocation stores: (existingCount + 1).toString()
NextCount(existingCount) == ToString(existingCount + 1)

\* await env.BOT_KV.put(quotaKey, (existingCount + 1).toString(), { expirationTtl })
PutQuota(s) ==
    LET r == req[s]
        quotaKey == QuotaKey(r.chat, r.day)
        put == [r EXCEPT !.wrote = @ \cup {<<"quota", quotaKey[1], quotaKey[2]>>}]
    IN  /\ r.pc = "putQuota"
        /\ \E ok \in BOOLEAN :
             IF ok
             THEN /\ kvQuota' = [kvQuota EXCEPT ![quotaKey] = NextCount(r.existingCount)]
                  /\ kvExpiry' = [kvExpiry EXCEPT
                                    ![quotaKey] = Now + 1000 * TtlSecondsUntilTomorrow(r.at)]
                  /\ Set(s, [put EXCEPT !.pc = "openai", !.writes = @ + 1,
                                        !.wroteCount = NextCount(r.existingCount)])
             ELSE /\ Set(s, Raise(put, "quotaWrite"))
                  /\ UNCHANGED <<kvQuota, kvExpiry>>
        /\ UNCHANGED <<env, today, nowMs, kvSettings, received, completions, exhausted>>

\* What invokeOpenAI does with the endpoint's reply: a non-success status and
\* a failed call or body parse throw; a success yields the answer.
Completed(r, outcome, answerLen) ==
    IF outcome = "ok"
    THEN SendThen(r, IF IsDebug(Trim(r.text)) THEN "debug" ELSE "answer",
                  IF IsDebug(Trim(r.text)) THEN answerLen + 200 ELSE answerLen, 200)
    ELSE Raise(r, outcome)

\* Mutant: a failed completion call gives the unit back.
InvokeRefund(s, lens) ==
    LET r == req[s]
    IN  /\ r.pc = "openai"
        /\ completions' = [completions EXCEPT ![<<r.chat, r.day>>] = @ + 1]
        /\ \E outcome \in {"ok", "http429", "http500", "network", "badjson"},
              answerLen \in lens :
             /\ Set(s, Completed([r EXCEPT !.calls = @ + 1], outcome, answerLen))
             /\ exhausted' = (exhausted \/ outcome = "http429")
             /\ kvQuota' = IF outcome = "ok" THEN kvQuota
                           ELSE [kvQuota EXCEPT ![QuotaKey(r.chat, r.day)] =
                                                   StoredCount(r.existingCount)]
        /\ UNCHANGED <<env, today, nowMs, kvExpiry, kvSettings, received>>

\* await invokeOpenAI(prompt, userSettings.tone): one POST to the endpoint,
\* whose answer has one of the lengths `lens`.
Invoke(s, lens) ==
    LET r == req[s]
    IN  /\ r.pc = "openai"
        /\ completions' = [completions EXCEPT ![<<r.chat, r.day>>] = @ + 1]
        /\ \E outcome \in {"ok", "http429", "http500", "network", "badjson"},
              answerLen \in lens :
             /\ Set(s, Completed([r EXCEPT !.calls = @ + 1], outcome, answerLen))
             /\ exhausted' = (exhausted \/ outcome = "http429")
        /\ UNCHANGED <<env, today, nowMs, kvQuota, kvExpiry, kvSettings, received>>

InvokeOpenAI(s) == Invoke(s, AnswerLens)

\* One turn of sendTelegramText's loop: the POST of the chunk at offset i. A
\* non-success reply is logged and the loop goes on; a failed call throws.
\* After the last chunk the caller returns its Response.
Send(s) ==
    LET r == req[s]
        chunk == Slice(r.len, r.i)
        posted == [r EXCEPT !.attempts = @ + 1, !.sent = @ \cup {r.msg},
                            !.log = Append(@, [msg |-> r.msg, of |-> r.len,
                                               from |-> chunk.from, to |-> chunk.to])]
    IN  /\ r.pc = "send"
        /\ r.i < r.len
        /\ \E outcome \in {"ok", "notok", "throw"} :
             Set(s, IF outcome = "throw" THEN Raise(posted, "delivery")
                    ELSE IF r.i + MAX < r.len THEN [posted EXCEPT !.i = r.i + MAX]
                    ELSE Reply(posted, r.after))
        /\ UNCHANGED <<env, today, nowMs, kvQuota, kvExpiry, kvSettings, received, completions, exhausted>>

Next ==
    \E s \in Slots :
        \/ Receive(s)
        \/ ReadQuota(s)
        \/ LoadSettings(s)
        \/ SaveTone(s)
        \/ PutQuota(s)
        \/ InvokeOpenAI(s)
        \/ Send(s)

Spec == Init /\ [][Next]_vars

\* ------------------------------------------ one invocation at a time

\* The requests of the day are handled one at a time: a single slot.
NextSeq ==
    \/ Receive(1)
    \/ ReadQuota(1)
    \/ LoadSettings(1)
    \/ SaveTone(1)
    \/ PutQuota(1)
    \/ InvokeOpenAI(1)
    \/ Send(1)

SpecSeq == Init /\ [][NextSeq]_vars

\* ------------------------------------------ ordinary messages, racing

\* Ordinary text messages of one chat.
MessageRequests ==
    { [route |-> "webhook", token |-> "right", bodyOk |-> TRUE, chat |-> 42,
       isString |-> TRUE, text |-> <<"hi">>] }

ReceiveMessage(s) == Deliver(s, MessageRequests, MaxRaceRequests)

\* The day's count is MaxInFlight below the cap when the run starts.
InitRace ==
    /\ env = [secret |-> FALSE, apiKey |-> TRUE]
    /\ today = 1
    /\ nowMs = Noon
    /\ Handled(DAILY_QUOTA - MaxInFlight)
    /\ kvSettings = [c \in Chats |-> <<>>]
    /\ req = [s \in Slots |-> Idle]
    /\ received = 0
    /\ exhausted = FALSE

NextRace ==
    \E s \in Slots :
        \/ ReceiveMessage(s)
        \/ ReadQuota(s)
        \/ LoadSettings(s)
        \/ PutQuota(s)
        \/ InvokeOpenAI(s)
        \/ Send(s)

SpecRace == InitRace /\ [][NextRace]_vars

\* ------------------------------------------ tone commands and /settings

\* /settings_tone with each tone, without an argument and with a word that is
\* no tone, and /settings, which reads the tone back.
ToneTexts ==
    { <<"/settings_tone", " ", "formal">>, <<"/settings_tone", " ", "friendly">>,
      <<"/settings_tone", " ", "technical">>, <<"/settings_tone">>,
      <<"/settings_tone", " ", "casual">>, <<"/settings">> }

ToneRequests ==
    { [route |-> "webhook", token |-> "right", bodyOk |-> TRUE, chat |-> c,
       isString |-> TRUE, text |-> t] : c \in ActiveChats, t \in ToneTexts }

ReceiveTone(s) == Deliver(s, ToneRequests, MaxToneRequests)

InitTone ==
    /\ env = [secret |-> FALSE, apiKey |-> TRUE]
    /\ today = 1
    /\ nowMs = Noon
    /\ Handled(0)
    /\ \E raw \in {<<>>, Stringify("technical")} :
         kvSettings = [c \in Chats |-> IF c \in ActiveChats THEN raw ELSE <<>>]
    /\ req = [s \in Slots |-> Idle]
    /\ received = 0
    /\ exhausted = FALSE

NextTone ==
    \E s \in Slots :
        \/ ReceiveTone(s)
        \/ ReadQuota(s)
        \/ LoadSettings(s)
        \/ SaveTone(s)
        \/ Send(s)

SpecTone == InitTone /\ [][NextTone]_vars

\* ------------------------------------------ messages across a UTC midnight

\* Instants of a day, in milliseconds after its midnight: the first ones, noon
\* and the last second.
Instants == {0, 500, Noon, DayMs - 1000, DayMs - 500, DayMs - 1}

\* Time passes within the day.
Advance ==
    /\ \E t \in Instants : t > nowMs /\ nowMs' = t
    /\ UNCHANGED <<env, today, kvQuota, kvExpiry, kvSettings, req, received, completions,
                   exhausted>>

\* The UTC day ends and the next one begins.
Midnight ==
    /\ today + 1 \in Days
    /\ today' = today + 1
    /\ nowMs' = 0
    /\ UNCHANGED <<env, kvQuota, kvExpiry, kvSettings, req, received, completions,
                   exhausted>>

ReceiveDay(s) == Deliver(s, MessageRequests, MaxDayRequests)

\* Noon of day 1, after a day's history of none, nearly all or all of the cap.
InitDay ==
    /\ env = [secret |-> FALSE, apiKey |-> TRUE]
    /\ today = 1
    /\ nowMs = Noon
    /\ \E prior \in PriorCounts : Handled(prior)
    /\ kvSettings = [c \in Chats |-> <<>>]
    /\ req = [s \in Slots |-> Idle]
    /\ received = 0
    /\ exhausted = FALSE

\* One invocation at a time, while the clock runs.
NextDay ==
    \/ Advance
    \/ Midnight
    \/ \E s \in {1} :
        \/ ReceiveDay(s)
        \/ ReadQuota(s)
        \/ LoadSettings(s)
        \/ PutQuota(s)
        \/ InvokeOpenAI(s)
        \/ Send(s)

SpecDay == InitDay /\ [][NextDay]_vars

\* ------------------------------------------ answers of many lengths

\* Lengths of the answer around the multiples of the chunk size.
WideAnswerLens ==
    {1, 50, MAX - 1, MAX, MAX + 1, MAX + 50, 2 * MAX, 2 * MAX + 1, 3 * MAX}

InvokeWide(s) == Invoke(s, WideAnswerLens)

ReceiveSend(s) == Deliver(s, MessageRequests, MaxSendRequests)

NextSend ==
    \E s \in Slots :
        \/ ReceiveSend(s)
        \/ ReadQuota(s)
        \/ LoadSettings(s)
        \/ PutQuota(s)
        \/ InvokeWide(s)
        \/ Send(s)

SpecSend == InitTone /\ [][NextSend]_vars

\* ------------------------------------------ invocations that are scheduled

\* The next step of the invocation in slot s: the return, or the failure, of
\* the outbound call it awaits.
Step(s) ==
    \/ ReadQuota(s)
    \/ LoadSettings(s)
    \/ SaveTone(s)
    \/ PutQuota(s)
    \/ InvokeOpenAI(s)
    \/ Send(s)

\* Every outbound call returns or fails, and the runtime resumes the
\* invocation that awaited it.
SpecFair == Spec /\ \A s \in Slots : WF_vars(Step(s))

\* ------------------------------------------ two chats

\* A message and a tone change, of either chat.
IsoTexts == { <<"hi">>, <<"/settings_tone", " ", "formal">> }

IsoRequests ==
    { [route |-> "webhook", token |-> "right", bodyOk |-> TRUE, chat |-> c,
       isString |-> TRUE, text |-> t] : c \in Chats, t \in IsoTexts }

ReceiveIso(s) == Deliver(s, IsoRequests, MaxIsoRequests)

\* The active chats are new; every other chat chose the technical tone and
\* had IsoPrior messages answered earlier in the day.
InitIso ==
    /\ env = [secret |-> FALSE, apiKey |-> TRUE]
    /\ today = 1
    /\ nowMs = Noon
    /\ kvQuota = [k \in Chats \X Days |->
                    IF k[1] \notin ActiveChats /\ k[2] = 1 THEN StoredCount(IsoPrior)
                    ELSE <<>>]
    /\ kvExpiry = [k \in Chats \X Days |->
                    IF k[1] \notin ActiveChats /\ k[2] = 1 THEN DayMs ELSE 0]
    /\ completions = [k \in Chats \X Days |->
                    IF k[1] \notin ActiveChats /\ k[2] = 1 THEN IsoPrior ELSE 0]
    /\ kvSettings = [c \in Chats |->
                    IF c \in ActiveChats THEN <<>> ELSE Stringify("technical")]
    /\ req = [s \in Slots |-> Idle]
    /\ received = 0
    /\ exhausted = FALSE

NextIso ==
    \E s \in Slots :
        \/ ReceiveIso(s)
        \/ ReadQuota(s)
        \/ LoadSettings(s)
        \/ SaveTone(s)
        \/ PutQuota(s)
        \/ InvokeOpenAI(s)
        \/ Send(s)

SpecIso == InitIso /\ [][NextIso]_vars

\* ------------------------------------------------------------------ claims

\* The texts of Texts that are ordinary messages or /debug, and those that
\* are the other commands, listed by hand.
MessageTexts == { <<"hi">>, <<"/debug", " ", "hi">> }

CommandTexts ==
    { <<" ", "/start", " ">>, <<"/help">>, <<"/quota", " ", "x">>, <<"/settings">>,
      <<"/settings_tone", " ", "casual">>, <<"/settings_tone", " ", " ", "FORMAL">> }

\* The invocation has read the day's count.
Observed(r) ==
    /\ r.chat # 0
    /\ r.pc \notin {"idle", "readQuota"}
    /\ r.status # 500
    /\ r.raised # "quotaRead"

Done(r) == r.pc = "done"

Keys == Chats \X Days

\* C1: an invocation that read a count at or above DAILY_QUOTA and handles no
\* early-return command writes no quota count and makes no completion call,
\* at any point of its run and under any interleaving.
C1_ExhaustedNoWriteNoCall ==
    \A s \in Slots :
        LET r == req[s]
        IN  Observed(r) /\ r.existingCount >= DAILY_QUOTA /\ r.text \in MessageTexts
                => r.writes = 0 /\ r.calls = 0 /\ r.pc \notin {"putQuota", "openai"}

C1_Witness ==
    \E s \in Slots :
        LET r == req[s]
        IN  /\ Done(r) /\ Observed(r) /\ r.text \in MessageTexts
            /\ r.existingCount >= DAILY_QUOTA /\ "exceeded" \in r.sent

\* The message handled after DAILY_QUOTA admitted ones, when invocations do
\* not overlap: it finds the stored count at the cap and writes nothing.
AfterCap(r) ==
    /\ Done(r) /\ r.chat # 0 /\ r.status # 500 /\ r.text \in MessageTexts
    /\ r.writes = 0
    /\ kvQuota[<<r.chat, r.day>>] = ToString(DAILY_QUOTA)

\* C2 as stated: one invocation at a time, at most DAILY_QUOTA completion calls
\* are made per chat and day, and the message after the cap is answered with the
\* quota-exhausted text, replied to with success, without a completion call.
C2_SequentialCapAlwaysSuccess ==
    /\ \A k \in Keys : completions[k] <= DAILY_QUOTA
    /\ \A s \in Slots :
         LET r == req[s]
         IN  AfterCap(r) =>
                /\ r.calls = 0
                /\ r.status = 200
                /\ r.sent = {"exceeded"} /\ r.existingCount = DAILY_QUOTA

\* C2 amended: the same, the success reply and the quota-exhausted text holding
\* when no store or delivery call of that invocation throws; when one does the
\* reply is 502 or none, still with no completion call.
C2_SequentialCap ==
    /\ \A k \in Keys : completions[k] <= DAILY_QUOTA
    /\ \A s \in Slots :
         LET r == req[s]
         IN  AfterCap(r) =>
                /\ r.calls = 0
                /\ r.raised = "" =>
                     /\ r.status = 200
                     /\ r.sent = {"exceeded"} /\ r.existingCount = DAILY_QUOTA
                /\ r.raised # "" => r.status \in {502, Rejected}

C2_Witness ==
    \E s \in Slots :
        LET r == req[s]
        IN  /\ AfterCap(r) /\ r.status = 200 /\ r.sent = {"exceeded"}
            /\ completions[<<r.chat, r.day>>] = DAILY_QUOTA
            /\ received = 2

\* C3 as stated: a text message (no early-return command) whose observed count
\* is below the cap makes exactly one completion call during its invocation.
C3_ExactlyOneCompletion ==
    \A s \in Slots :
        LET r == req[s]
        IN  Done(r) /\ Observed(r) /\ r.text \in MessageTexts
                /\ r.existingCount < DAILY_QUOTA
                => r.calls = 1

\* C3 amended: never more than one completion call; exactly one unless the
\* settings load or the quota write of the invocation throws, and then none.
C3_ExactlyOneUnlessStoreThrows ==
    \A s \in Slots :
        LET r == req[s]
        IN  /\ r.calls <= 1
            /\ Done(r) /\ Observed(r) /\ r.text \in MessageTexts
                /\ r.existingCount < DAILY_QUOTA
                => r.calls = IF r.raised \in {"settingsLoad", "quotaWrite"} THEN 0 ELSE 1

C3_Witness ==
    \E s \in Slots :
        LET r == req[s]
        IN  /\ Done(r) /\ Observed(r) /\ r.text \in MessageTexts
            /\ r.existingCount < DAILY_QUOTA /\ r.calls = 1 /\ r.status = 200
            /\ "answer" \in r.sent

\* C4: with at most MaxInFlight invocations of a chat and day in flight at a
\* time, the completion calls of that chat and day never exceed
\* DAILY_QUOTA + MaxInFlight.
C4_CapPlusInFlight ==
    \A k \in Keys : completions[k] <= DAILY_QUOTA + MaxInFlight

\* C5: no write to the quota count of a chat and day stores less than the
\* count stored just before it.
C5_CountNeverDecreases ==
    [][\A k \in Keys : ExistingCount(kvQuota'[k]) >= ExistingCount(kvQuota[k])]_vars

\* C6: an ordinary message that arrives after a completion call reported 429,
\* with no time passed since, makes no completion call.
C6_BackoffSuppressesCompletion ==
    \A s \in Slots :
        LET r == req[s]
        IN  r.afterExhaustion /\ r.text \in MessageTexts => r.calls = 0

\* C7: an invocation handling /start, /help, /quota, /settings or
\* /settings_tone (valid or invalid argument) makes no completion call and
\* writes no quota count, whatever the count it read.
C7_CommandsEndPipeline ==
    \A s \in Slots :
        LET r == req[s]
        IN  r.chat # 0 /\ r.text \in CommandTexts
                => /\ r.calls = 0 /\ r.writes = 0
                   /\ r.pc \notin {"putQuota", "openai"}
                   /\ r.sent \subseteq {"start", "help", "quota", "settings", "hint",
                                        "tone", "error"}

C7_Witness ==
    \E s \in Slots :
        LET r == req[s]
        IN  /\ Done(r) /\ r.text \in CommandTexts /\ Observed(r)
            /\ r.existingCount >= DAILY_QUOTA /\ r.status = 200

\* C8: a non-success status of the completion endpoint does not raise past the
\* completion step: the invocation ends like one whose completion succeeded,
\* with a 200 reply after delivering a canned answer.
C8_CompletionFailureEndsLikeSuccess ==
    \A s \in Slots :
        LET r == req[s]
        IN  Done(r) /\ r.raised \in {"http429", "http500"} => r.status = 200

\* C9 as stated: once the body parsed, the reply is always 200.
C9_AlwaysSuccessOnceParsed ==
    \A s \in Slots :
        LET r == req[s]
        IN  Done(r) /\ r.parsed => r.status = 200

\* C9 amended: once the body parsed, the reply is 200 for an update without chat
\* id or text and for a message none of whose calls throws; it is 500 when
\* OPENAI_API_KEY is not set, and 502 (or no reply, when the error notice cannot
\* be delivered) when a store, completion or delivery call throws.
C9_SuccessUnlessKeyMissingOrRaised ==
    \A s \in Slots :
        LET r == req[s]
        IN  Done(r) /\ r.parsed =>
                CASE r.chat = 0 -> r.status = 200
                  [] ~env.apiKey -> r.status = 500
                  [] r.raised = "" -> r.status = 200
                  [] OTHER -> r.status \in {502, Rejected}

C9_Witness ==
    \E s \in Slots :
        LET r == req[s]
        IN  /\ Done(r) /\ r.parsed /\ r.status = 502 /\ r.raised = "delivery"
            /\ r.sent = {"exceeded", "error"}

\* C10: a failure raised after the extraction of chat id and text always ends
\* the invocation with a 502 reply.
C10_FailureEndsInBadGateway ==
    \A s \in Slots :
        LET r == req[s]
        IN  Done(r) /\ r.raised # "" => r.status = 502

\* C11: when a shared secret is configured, a webhook POST whose secret header
\* is absent or differs is answered 401 and nothing else is done for it: the
\* body is not parsed, no store entry is read or written, and no completion
\* call and no delivery call is made.
C11_BadSecretStopsAt401 ==
    \A s \in Slots :
        LET r == req[s]
        IN  (env.secret /\ r.token \in {"absent", "wrong"}) =>
              /\ Done(r) /\ r.status = 401
              /\ ~r.parsed
              /\ r.reads = {} /\ r.wrote = {} /\ r.writes = 0
              /\ r.calls = 0
              /\ r.attempts = 0 /\ r.log = <<>> /\ r.sent = {}

\* A request without the header was refused while another invocation, which
\* carried the secret, was admitted and had charged its unit.
C11_Witness ==
    /\ env.secret
    /\ \E s, t \in Slots :
         /\ req[s].token = "absent" /\ req[s].status = 401
         /\ req[t].token = "right" /\ req[t].writes = 1

\* The /settings_tone texts that name a tone, the tone each names, and those
\* that name none, listed by hand.
ValidToneTexts ==
    { <<"/settings_tone", " ", "formal">>, <<"/settings_tone", " ", "friendly">>,
      <<"/settings_tone", " ", "technical">> }

NamedTone(text) == text[3]

InvalidToneTexts == { <<"/settings_tone">>, <<"/settings_tone", " ", "casual">> }

\* The step is the settings write of slot s, and the write succeeded.
Saved(s) == req[s].pc = "saveTone" /\ req'[s].pc = "send" /\ req'[s].msg = "tone"

\* The step is the settings read of slot s, and the read succeeded.
Loaded(s) ==
    /\ req[s].pc = "loadSettings"
    /\ req'[s].pc # "loadSettings"
    /\ req'[s].raised # "settingsLoad"

Charged(s) == req[s].pc = "putQuota" /\ req'[s].pc = "openai"

\* C13: the count is kept per chat and UTC day and resets at the rollover. An
\* entry never expires before the midnight that ends its day; the expiry
\* handed to the store is at least one second and, counted from the request's
\* instant, falls in the second that begins at that midnight. While nothing
\* was written for a chat on the new day, every request of the new day
\* observes count zero, and the first write of the new day stores 1, whatever
\* the count of the day before.
C13_QuotaResetsAtRollover ==
    /\ [](/\ \A k \in Keys : kvQuota[k] # <<>> => kvExpiry[k] >= k[2] * DayMs
          /\ \A s \in Slots :
               LET r == req[s]
               IN  /\ r.pc \notin {"idle", "done"} => r.day = CurrentDay(r.at)
                   /\ (Observed(r) /\ r.day = 2 /\ kvQuota[<<r.chat, 2>>] = <<>>) =>
                         r.existingCount = 0)
    /\ [][ /\ \A c \in Chats :
                (kvQuota[<<c, 2>>] = <<>> /\ kvQuota'[<<c, 2>>] # <<>>) =>
                    kvQuota'[<<c, 2>>] = ToString(1)
           /\ \A s \in Slots :
                Charged(s) =>
                    LET r == req[s]
                        expiry == kvExpiry'[<<r.chat, r.day>>]
                        midnight == r.day * DayMs
                    IN  /\ expiry - Now >= 1000
                        /\ expiry - (Now - r.at) >= midnight
                        /\ expiry - (Now - r.at) < midnight + 1000 ]_vars

\* Day 1 ended at the cap; the first message of day 2 observed zero and its
\* write stored 1.
C13_Witness ==
    /\ today = 2
    /\ kvQuota[<<42, 1>>] = ToString(DAILY_QUOTA)
    /\ kvQuota[<<42, 2>>] = ToString(1)
    /\ \E s \in Slots :
         /\ req[s].day = 2 /\ req[s].existingCount = 0 /\ req[s].writes = 1
         /\ Done(req[s]) /\ req[s].status = 200

\* The delivery calls an invocation made for the text m, in the order made.
Calls(r, m) == LET IsOf(e) == e.msg = m IN SelectSeq(r.log, IsOf)

\* Math.ceil(len / MAX), listed as a quotient.
ChunkCount(len) == (len + MAX - 1) \div MAX

\* sendTelegramText(chatId, m) returned to its caller: nothing was thrown
\* while m was sent.
Returned(r, m) ==
    /\ Done(r)
    /\ m \in r.sent
    /\ IF m = "error" THEN r.status = 502 ELSE r.raised = ""

BlockUntilKey == <<"block-until", 0, 0>>

\* The steps the code has, in order: a completion call is made only after the
\* day's count was read and written, and a chunk of the answer or of the
\* serialized result is delivered only after the completion call.
OrderOfQuotaCallDispatch ==
    \A s \in Slots :
        LET r == req[s]
        IN  /\ r.calls > 0 =>
                  /\ <<"quota", r.chat, r.day>> \in r.reads
                  /\ <<"quota", r.chat, r.day>> \in r.wrote
                  /\ r.writes = 1
            /\ r.sent \cap {"answer", "debug"} # {} => r.calls = 1

\* C15: within one invocation the quota check (read and write of the count)
\* precedes the backoff check, which precedes the completion call, which
\* precedes dispatch: when the completion call is made the count was read
\* and written and the backoff key was read, and no chunk of the answer is
\* delivered before the completion call.
C15_StepsInOrder ==
    /\ OrderOfQuotaCallDispatch
    /\ \A s \in Slots : req[s].calls > 0 => BlockUntilKey \in req[s].reads

\* C16: whichever chunk deliveries fail, by a non-success reply or by the
\* delivery call itself failing, every chunk of the text is attempted, in
\* order: once an invocation is through with a text, it has made all
\* ceil(L / 4000) delivery calls for it.
C16_EveryChunkAttempted ==
    \A s \in Slots :
        \A m \in req[s].sent :
            LET r == req[s]
                calls == Calls(r, m)
            IN  (Done(r) \/ r.msg # m) =>
                  /\ Len(calls) = ChunkCount(calls[1].of)
                  /\ \A j \in 1..Len(calls) : calls[j].from = (j - 1) * MAX

\* The /debug text of Texts.
DebugText == <<"/debug", " ", "hi">>

\* C17 as stated: every /debug observed below the cap writes once, makes one
\* completion call and delivers the serialized result; every /debug at or
\* above the cap writes nothing, calls nothing and gets the quota-exhausted
\* reply.
C17_DebugChargedAlways ==
    \A s \in Slots :
        LET r == req[s]
        IN  (r.text = DebugText /\ Observed(r) /\ Done(r)) =>
              IF r.existingCount >= DAILY_QUOTA
              THEN r.writes = 0 /\ r.calls = 0 /\ r.sent = {"exceeded"}
              ELSE r.writes = 1 /\ r.calls = 1 /\ r.sent = {"debug"}

\* C17: a /debug update is charged like an ordinary message. Observed below
\* the cap, it writes the observed count plus one and makes exactly one
\* completion call, unless its settings read or quota write throws, when it
\* does neither; it never delivers the plain answer, and when nothing throws
\* it delivers the serialized result and replies 200. Observed at or above
\* the cap, it writes nothing and makes no call, and when nothing throws it
\* delivers the quota-exhausted reply and replies 200.
C17_DebugChargedLikeMessage ==
    \A s \in Slots :
        LET r == req[s]
            early == r.raised \in {"settingsLoad", "quotaWrite"}
        IN  (r.text = DebugText /\ Observed(r) /\ Done(r)) =>
              IF r.existingCount >= DAILY_QUOTA
              THEN /\ r.writes = 0 /\ r.calls = 0
                   /\ <<"quota", r.chat, r.day>> \notin r.wrote
                   /\ r.sent \subseteq {"exceeded", "error"}
                   /\ r.raised = "" => r.sent = {"exceeded"} /\ r.status = 200
              ELSE /\ early => r.writes = 0 /\ r.calls = 0 /\ r.sent \subseteq {"error"}
                   /\ ~early =>
                         /\ r.writes = 1 /\ r.calls = 1
                         /\ r.wroteCount = ToString(r.existingCount + 1)
                   /\ "answer" \notin r.sent
                   /\ "debug" \in r.sent => r.raised \in {"", "delivery"}
                   /\ r.raised = "" => r.sent = {"debug"} /\ r.status = 200

\* One /debug was admitted at count 19 and got the serialized result; another,
\* which read the count after that write, was refused.
C17_Witness ==
    \E s, t \in Slots :
        /\ req[s].text = DebugText /\ Done(req[s]) /\ req[s].existingCount = DAILY_QUOTA - 1
        /\ req[s].writes = 1 /\ req[s].calls = 1 /\ req[s].sent = {"debug"}
        /\ req[s].status = 200
        /\ req[t].text = DebugText /\ Done(req[t]) /\ req[t].existingCount = DAILY_QUOTA
        /\ req[t].writes = 0 /\ req[t].calls = 0 /\ req[t].sent = {"exceeded"}

\* The invocation in slot s has begun and has not ended.
Running(s) == req[s].pc \notin {"idle", "done"}

\* Every invocation that has begun ends: it reaches its reply or rejects.
EveryInvocationEnds == \A s \in Slots : Running(s) ~> Done(req[s])

\* C18: every invocation that begins processing eventually reaches a terminal
\* reply, a success or an explicit error status: it ends, and when it has
\* ended it has replied.
C18_EveryInvocationReplies ==
    /\ EveryInvocationEnds
    /\ [](\A s \in Slots : Done(req[s]) => req[s].status # Rejected)

\* The step is one of the invocation in slot s after its quota write.
AfterCharge(s) == req[s].writes = 1 /\ req'[s] # req[s] /\ req'[s].writes = 1

\* C19: the unit is charged before the completion call and never given back.
\* An invocation writes the counter at most once, the observed count plus
\* one, and before its completion call; no step it takes after that write,
\* the failure of the completion call or of a delivery and the catch
\* included, changes the counter or its expiry.
C19_ChargedBeforeCallNeverRefunded ==
    /\ [](\A s \in Slots :
            LET r == req[s]
            IN  /\ r.writes <= 1
                /\ r.calls > 0 => r.writes = 1
                /\ r.writes = 1 => r.wroteCount = ToString(r.existingCount + 1))
    /\ [][\A s \in Slots :
            AfterCharge(s) => kvQuota' = kvQuota /\ kvExpiry' = kvExpiry]_vars

\* An admitted request's completion call failed and it ended with 502; the
\* counter holds the value the request wrote.
C19_Witness ==
    \E s \in Slots :
        /\ Done(req[s]) /\ req[s].status = 502
        /\ req[s].raised \in {"http429", "http500", "network", "badjson"}
        /\ req[s].writes = 1
        /\ kvQuota[<<req[s].chat, req[s].day>>] = req[s].wroteCount
        /\ ExistingCount(kvQuota[<<req[s].chat, req[s].day>>]) = req[s].existingCount + 1

\* The store entries of chat b: its settings and its counts with their expiry.
Entries(b) ==
    <<kvSettings[b], [d \in Days |-> kvQuota[<<b, d>>]], [d \in Days |-> kvExpiry[<<b, d>>]]>>

\* C20: an invocation for a chat reads and writes only the settings entry
\* and the quota entries keyed by that chat, and the stored tone and counts
\* of a chat change only in a store write of an invocation for that chat:
\* no sequence or interleaving of requests of other chats changes them.
C20_PerChatIsolation ==
    /\ [](\A s \in Slots :
            LET r == req[s]
                own == {<<"settings", r.chat, 0>>} \cup {<<"quota", r.chat, d>> : d \in Days}
            IN  r.reads \subseteq own /\ r.wrote \subseteq own)
    /\ [][\A b \in Chats :
            Entries(b)' # Entries(b) =>
                \E s \in Slots :
                    /\ req[s].chat = b
                    /\ req[s].pc \in {"saveTone", "putQuota"}
                    /\ req'[s] # req[s]]_vars

\* Chat 42 changed its tone and was charged a message while chat 7 still has
\* the tone and the count it had before.
C20_Witness ==
    /\ kvSettings[42] = Stringify("formal")
    /\ kvQuota[<<42, 1>>] = ToString(1)
    /\ kvSettings[7] = Stringify("technical")
    /\ kvQuota[<<7, 1>>] = ToString(IsoPrior)
    /\ \E s \in Slots : req[s].chat = 42 /\ Done(req[s]) /\ req[s].status = 200

====
